---- MODULE Spec2Model ----
(***************************************************************************)
(* Model of CUDAPlugin::TransposeOp                                        *)
(* (modules/cuda_plugin/src/ops/transpose.cpp).                            *)
(*                                                                         *)
(* A graph node is given; the adapter is constructed from it (or the       *)
(* construction fails), and is then executed any number of times.  Every   *)
(* Execute call is one step: it records the calls it makes on the stream   *)
(* and on cuTENSOR, in order, in `call.trace`.                             *)
(*                                                                         *)
(* Vectors are 0-indexed in the source and 1-indexed here: element i of a  *)
(* C++ vector is element i+1 of the sequence.  The VALUES kept in the      *)
(* mode vectors are the source's axis numbers 0..rank-1.                   *)
(***************************************************************************)
EXTENDS Integers, Sequences, FiniteSets, TLC

VARIABLES node, pc, adapter, call

vars == <<node, pc, adapter, call>>

\* ------------------------------------------------------------------ bounds
\* Largest tensor rank of a node.
MaxRank == 3
\* Largest extent of one axis.
MaxExtent == 2
\* Largest tensor rank of a node whose order is read from the device at
\* execution.
MaxRuntimeRank == 2

\* ------------------------------------------------------------ element types
\* The eight cases of the switch in TransposeOp::permutation.
IntegerTypes == {"i8", "i16", "i32", "i64", "u8", "u16", "u32", "u64"}

\* Element types a second input can declare: the eight above and two that
\* fall to the switch's default.
PermutationElementTypes == IntegerTypes \cup {"f32", "boolean"}

\* Element types of the data being transposed.
DataElementTypes == {"f32"}

\* sizeof(T) of the C++ type each element type is downloaded as.
SizeOf(t) ==
  CASE t \in {"i8", "u8", "boolean"} -> 1
    [] t \in {"i16", "u16"} -> 2
    [] t \in {"i32", "u32", "f32"} -> 4
    [] OTHER -> 8

IsSigned(t) == t \in {"i8", "i16", "i32", "i64"}

\* ------------------------------------------------------------- sequences
Reverse(s) == [i \in 1..Len(s) |-> s[Len(s) + 1 - i]]

Range(s) == {s[i] : i \in 1..Len(s)}

\* All sequences of length n over the set S.
SeqsOfLen(S, n) == [1..n -> S]

\* The sequences of length n that hold each of 0..n-1 once.
Permutations0(n) == {p \in SeqsOfLen(0..(n - 1), n) : Range(p) = 0..(n - 1)}

\* ------------------------------------------------- values held in memory
\* Byte i (1 = least significant) of the two's-complement, little-endian
\* form of v; v is within 32 bits, so bytes 5..8 are its sign extension.
ByteOf(v, i) ==
  CASE i = 1 -> v % 256
    [] i = 2 -> (v \div 256) % 256
    [] i = 3 -> (v \div 65536) % 256
    [] i = 4 -> (v \div 16777216) % 256
    [] OTHER -> IF v < 0 THEN 255 ELSE 0

\* The value v stored as one element of type t.
EncodeElement(t, v) == [i \in 1..SizeOf(t) |-> ByteOf(v, i)]

EncodeVector(t, vs) == [i \in 1..Len(vs) |-> EncodeElement(t, vs[i])]

\* The bytes b of the low 32 bits read as a C++ int.
Int32OfBytes(b) ==
  b[1] + 256 * b[2] + 65536 * b[3]
    + 16777216 * (IF b[4] >= 128 THEN b[4] - 256 ELSE b[4])

Int32OfBytesBigEndian(b) ==
  b[Len(b)] + 256 * b[Len(b) - 1] + 65536 * b[Len(b) - 2]
    + 16777216 * (IF b[Len(b) - 3] >= 128 THEN b[Len(b) - 3] - 256 ELSE b[Len(b) - 3])

\* Mutant of CastToInt: multi-byte elements are read most significant byte
\* first.
CastToIntBigEndian(t, b) ==
  CASE SizeOf(t) = 1 -> IF IsSigned(t) /\ b[1] >= 128 THEN b[1] - 256 ELSE b[1]
    [] SizeOf(t) = 2 ->
         LET u == b[2] + 256 * b[1]
         IN  IF IsSigned(t) /\ u >= 32768 THEN u - 65536 ELSE u
    [] OTHER -> Int32OfBytesBigEndian(b)

\* One element of type t, held as the bytes b, converted to int: the
\* element-wise conversion of std::copy into a vector<int> and of
\* Constant::cast_vector<int>.  A value beyond int keeps its low 32 bits.
CastToInt(t, b) ==
  CASE SizeOf(t) = 1 -> IF IsSigned(t) /\ b[1] >= 128 THEN b[1] - 256 ELSE b[1]
    [] SizeOf(t) = 2 ->
         LET u == b[1] + 256 * b[2]
         IN  IF IsSigned(t) /\ u >= 32768 THEN u - 65536 ELSE u
    [] OTHER -> Int32OfBytes(b)

\* constant->cast_vector<int>()
cast_vector(t, data) == [i \in 1..Len(data) |-> CastToInt(t, data[i])]

\* --------------------------------------------------------------- shapes
Shapes == UNION {SeqsOfLen(1..MaxExtent, r) : r \in 0..MaxRank}

\* The shape whose axis i is axis order[i] of `shape`: the output shape the
\* graph declares for a transpose of `shape` by `order`.
ApplyPermutation(shape, order) == [i \in 1..Len(order) |-> shape[order[i] + 1]]

RECURSIVE ProductFrom(_, _)
\* shape[from] * ... * shape[Len(shape)], 1 when there is none.
ProductFrom(shape, from) ==
  IF from > Len(shape) THEN 1 ELSE shape[from] * ProductFrom(shape, from + 1)

\* ngraph::row_major_stride(shape, axis), axis counted from 0.
row_major_stride(shape, axis) == ProductFrom(shape, axis + 2)

\* ---------------------------------------------------------------- nodes
\* A node with one input: the data, of shape s and element type dt.  The
\* graph declares the output of a transpose without an order as the input
\* shape with its axes reversed.
NodeWithoutOrder(s, dt) ==
  [numInputs |-> 1, inShape |-> s, inType |-> dt, outShape |-> Reverse(s),
   producer |-> "none", permType |-> "i32", permValues |-> <<>>,
   permData |-> <<>>]

\* A node whose second input is produced by a Constant holding the order p,
\* stored as elements of type t.
NodeWithConstantOrder(s, dt, t, p) ==
  [numInputs |-> 2, inShape |-> s, inType |-> dt,
   outShape |-> ApplyPermutation(s, p), producer |-> "Constant",
   permType |-> t, permValues |-> p, permData |-> EncodeVector(t, p)]

\* A node whose second input, of element type t, is produced by another
\* operation: its values exist only at execution, on the device.  The graph
\* declares a static output shape o.
NodeWithRuntimeOrder(s, dt, t, o) ==
  [numInputs |-> 2, inShape |-> s, inType |-> dt, outShape |-> o,
   producer |-> "Parameter", permType |-> t, permValues |-> <<>>,
   permData |-> <<>>]

\* The output shapes a graph can declare for a transpose of s: those of the
\* same rank that hold the same extents in some order.
DeclaredOutputShapes(s) == {ApplyPermutation(s, q) : q \in Permutations0(Len(s))}

\* A node with k inputs, k being 0 or 3.
NodeWithBadInputCount(k, s, dt) ==
  [numInputs |-> k, inShape |-> s, inType |-> dt, outShape |-> s,
   producer |-> "none", permType |-> "i32", permValues |-> <<>>,
   permData |-> <<>>]

\* What the second input tensor can hold on the device when Execute runs
\* with numInputTensors handles: any order of the axes, one axis repeated, or
\* all bits set.  With fewer than two handles there is no second tensor.
DeviceTensors(n, numInputTensors) ==
  IF numInputTensors >= 2 /\ n.producer = "Parameter" /\ n.permType \in IntegerTypes
  THEN LET r == Len(n.inShape)
       IN  {EncodeVector(n.permType, vs) : vs \in Permutations0(r)}
             \cup {EncodeVector(n.permType, [i \in 1..r |-> v]) : v \in 0..(r - 1)}
             \cup {[i \in 1..r |-> [j \in 1..SizeOf(n.permType) |-> 255]]}
  ELSE {<<>>}

\* ---------------------------------------------------------- construction
NoAdapter == [constructed |-> FALSE]
NoCall == [made |-> FALSE]

extractInputExtents(n) == [i \in 1..Len(n.inShape) |-> n.inShape[i]]

extractOutputExtents(n) == [i \in 1..Len(n.outShape) |-> n.outShape[i]]

\* Mutant of extractInputStrides: the stride of axis i takes in its own extent.
extractInputStridesOffByOne(n) ==
  [i \in 1..Len(n.inShape) |-> ProductFrom(n.inShape, i)]

extractInputStrides(n) ==
  [i \in 1..Len(n.inShape) |-> row_major_stride(n.inShape, i - 1)]

extractOutputStrides(n) ==
  [i \in 1..Len(n.outShape) |-> row_major_stride(n.outShape, i - 1)]

\* ExtentsMap: axis number -> extent.
extractExtents(input_extents) ==
  [i \in 0..(Len(input_extents) - 1) |-> input_extents[i + 1]]

extractInputMode(numDims) == [i \in 1..numDims |-> i - 1]

\* The value returned when its Expects holds.
isPermutationTensorSpecified(n) == n.numInputs = 2

\* Mutant of tryToExtractPermutation: the default order is not reversed.
tryToExtractPermutationNoReverse(n) ==
  IF isPermutationTensorSpecified(n)
  THEN IF n.producer = "Constant"
       THEN [has_value |-> TRUE, value |-> cast_vector(n.permType, n.permData)]
       ELSE [has_value |-> FALSE, value |-> <<>>]
  ELSE [has_value |-> TRUE, value |-> extractInputMode(Len(n.inShape))]

\* std::optional<std::vector<int>>
tryToExtractPermutation(n) ==
  IF isPermutationTensorSpecified(n)
  THEN IF n.producer = "Constant"
       THEN [has_value |-> TRUE, value |-> cast_vector(n.permType, n.permData)]
       ELSE [has_value |-> FALSE, value |-> <<>>]
  ELSE [has_value |-> TRUE, value |-> Reverse(extractInputMode(Len(n.inShape)))]

extractPermutationElementsType(n) ==
  IF n.numInputs = 1 THEN "i32" ELSE n.permType

\* Mutant of ConstructorExpects: only the lower limit is checked.
ConstructorExpectsNoUpperLimit(n) == n.numInputs > 0

\* The preconditions the constructor's helpers assert:
\* Expects(numInputs == 1 || numInputs == 2) in isPermutationTensorSpecified,
\* Expects(get_input_size() > 0 && get_input_size() <= 2) in
\* extractPermutationElementsType.
ConstructorExpects(n) ==
  /\ n.numInputs = 1 \/ n.numInputs = 2
  /\ n.numInputs > 0 /\ n.numInputs <= 2

\* The member initializer list of the constructor.
TransposeOp(n) ==
  [constructed |-> TRUE,
   inputExtents_ |-> extractInputExtents(n),
   dimsNumber_ |-> Len(extractInputExtents(n)),
   outputExtents_ |-> extractOutputExtents(n),
   inputStrides_ |-> extractInputStrides(n),
   outputStrides_ |-> extractOutputStrides(n),
   inputMode_ |-> extractInputMode(Len(extractInputExtents(n))),
   outputMode_ |-> tryToExtractPermutation(n),
   extents_ |-> extractExtents(extractInputExtents(n)),
   inputElementsType_ |-> n.inType,
   permutationElementsType_ |-> extractPermutationElementsType(n)]

\* ------------------------------------------------------------- execution
\* The calls an Execute makes on the stream and on cuTENSOR.
DownloadEvent(bytes) == [ev |-> "download", bytes |-> bytes]

SynchronizeEvent == [ev |-> "synchronize"]

InitDescriptorEvent(numModes, extent, stride, dataType) ==
  [ev |-> "cutensorInitTensorDescriptor", numModes |-> numModes,
   extent |-> extent, stride |-> stride, dataType |-> dataType]

PermutationEvent(modeA, modeB, typeScalar) ==
  [ev |-> "cutensorPermutation", modeA |-> modeA, modeB |-> modeB,
   typeScalar |-> typeScalar]

\* downloadPermutationVector<T>: numDims * sizeof(T) bytes are copied from
\* the device, the stream is synchronized, and the elements become ints.
downloadPermutationVector(t, devicePointer, numDims) ==
  [error |-> "none",
   trace |-> <<DownloadEvent(numDims * SizeOf(t)), SynchronizeEvent>>,
   value |-> [i \in 1..numDims |-> CastToInt(t, devicePointer[i])]]

\* Mutant of permutation: the order is read from the device whenever a second
\* tensor is passed, also when the order was extracted at construction.
permutationAlwaysDownloads(a, numInputTensors, devicePointer) ==
  IF a.outputMode_.has_value /\ numInputTensors # 2
  THEN [error |-> "none", trace |-> <<>>, value |-> a.outputMode_.value]
  ELSE IF numInputTensors # 2
       THEN [error |-> "PreconditionViolated", trace |-> <<>>, value |-> <<>>]
       ELSE [error |-> "none",
             trace |-> <<DownloadEvent(a.dimsNumber_ * SizeOf(a.permutationElementsType_)),
                         SynchronizeEvent>>,
             value |-> a.outputMode_.value]

\* Mutant of permutation: an element type outside the switch is downloaded
\* as int32 instead of being refused.
permutationDefaultDownloads(a, numInputTensors, devicePointer) ==
  IF a.outputMode_.has_value
  THEN [error |-> "none", trace |-> <<>>, value |-> a.outputMode_.value]
  ELSE IF numInputTensors # 2
       THEN [error |-> "PreconditionViolated", trace |-> <<>>, value |-> <<>>]
       ELSE [error |-> "none",
             trace |-> <<DownloadEvent(a.dimsNumber_ * SizeOf("i32")), SynchronizeEvent>>,
             value |-> [i \in 1..a.dimsNumber_ |-> 0]]

\* Mutant of permutation: the stream is not synchronized after the download.
permutationNoSynchronize(a, numInputTensors, devicePointer) ==
  IF a.outputMode_.has_value
  THEN [error |-> "none", trace |-> <<>>, value |-> a.outputMode_.value]
  ELSE IF numInputTensors # 2
       THEN [error |-> "PreconditionViolated", trace |-> <<>>, value |-> <<>>]
       ELSE IF a.permutationElementsType_ \in IntegerTypes
            THEN [error |-> "none",
                  trace |-> <<DownloadEvent(a.dimsNumber_ * SizeOf(a.permutationElementsType_))>>,
                  value |-> [i \in 1..a.dimsNumber_ |->
                               CastToInt(a.permutationElementsType_, devicePointer[i])]]
            ELSE [error |-> "UnsupportedType", trace |-> <<>>, value |-> <<>>]

\* TransposeOp::permutation: the stored order, or the order downloaded from
\* the second input tensor.
permutation(a, numInputTensors, devicePointer) ==
  IF a.outputMode_.has_value
  THEN [error |-> "none", trace |-> <<>>, value |-> a.outputMode_.value]
  ELSE IF numInputTensors # 2
       THEN [error |-> "PreconditionViolated", trace |-> <<>>, value |-> <<>>]
       ELSE IF a.permutationElementsType_ \in IntegerTypes
            THEN downloadPermutationVector(a.permutationElementsType_,
                                           devicePointer, a.dimsNumber_)
            ELSE [error |-> "UnsupportedType", trace |-> <<>>, value |-> <<>>]

\* Mutant of ExecuteExpects: the number of output tensors is not checked.
ExecuteExpectsInputsOnly(numInputTensors, numOutputTensors) ==
  numInputTensors = 1 \/ numInputTensors = 2

\* Expects(inputTensors.size() == 1 || inputTensors.size() == 2);
\* Expects(outputTensors.size() == 1);
ExecuteExpects(numInputTensors, numOutputTensors) ==
  /\ numInputTensors = 1 \/ numInputTensors = 2
  /\ numOutputTensors = 1

\* The record of one TransposeOp::Execute call on the adapter a: the error
\* it ended with ("none" when it returned) and the calls it made.
\* `status` is what cutensorPermutation returns.
ExecuteCall(a, numInputTensors, numOutputTensors, devicePointer, status) ==
  IF ~ExecuteExpects(numInputTensors, numOutputTensors)
  THEN [made |-> TRUE, numInputTensors |-> numInputTensors,
        numOutputTensors |-> numOutputTensors,
        error |-> "PreconditionViolated", trace |-> <<>>]
  ELSE LET outputMode == permutation(a, numInputTensors, devicePointer)
       IN  IF outputMode.error # "none"
           THEN [made |-> TRUE, numInputTensors |-> numInputTensors,
                 numOutputTensors |-> numOutputTensors,
                 error |-> outputMode.error, trace |-> outputMode.trace]
           ELSE [made |-> TRUE, numInputTensors |-> numInputTensors,
                 numOutputTensors |-> numOutputTensors,
                 error |-> IF status = "CUTENSOR_STATUS_SUCCESS"
                           THEN "none" ELSE "PrimitiveFailure",
                 trace |-> outputMode.trace \o
                   <<InitDescriptorEvent(a.dimsNumber_, a.inputExtents_,
                                         a.inputStrides_, a.inputElementsType_),
                     InitDescriptorEvent(a.dimsNumber_, a.outputExtents_,
                                         a.outputStrides_, a.inputElementsType_),
                     PermutationEvent(a.inputMode_, outputMode.value,
                                      a.inputElementsType_)>>]

Statuses == {"CUTENSOR_STATUS_SUCCESS", "CUTENSOR_STATUS_INVALID_VALUE"}

\* How many tensor handles a caller may pass.
InputTensorCounts == 0..3
OutputTensorCounts == 1..2

\* ---------------------------------------------------------------- actions
Init ==
  /\ \E s \in Shapes, dt \in DataElementTypes :
       \/ node = NodeWithoutOrder(s, dt)
       \/ \E t \in IntegerTypes, p \in Permutations0(Len(s)) :
            node = NodeWithConstantOrder(s, dt, t, p)
       \/ /\ Len(s) <= MaxRuntimeRank
          /\ \E t \in PermutationElementTypes, o \in DeclaredOutputShapes(s) :
               node = NodeWithRuntimeOrder(s, dt, t, o)
       \/ \E k \in {0, 3} : node = NodeWithBadInputCount(k, s, dt)
  /\ pc = "new"
  /\ adapter = NoAdapter
  /\ call = NoCall

\* The constructor: it returns the adapter, or a precondition of one of its
\* helpers fails and there is no adapter.
Construct ==
  /\ pc = "new"
  /\ IF ConstructorExpects(node)
     THEN pc' = "ready" /\ adapter' = TransposeOp(node)
     ELSE pc' = "InvalidGraph" /\ adapter' = NoAdapter
  /\ UNCHANGED <<node, call>>

\* One Execute call, with the handles the caller passes and the contents of
\* the second input tensor at that moment.  No member is assigned.
Execute ==
  /\ pc = "ready"
  /\ \E nIn \in InputTensorCounts, nOut \in OutputTensorCounts :
       \E dev \in DeviceTensors(node, nIn), status \in Statuses :
         call' = ExecuteCall(adapter, nIn, nOut, dev, status)
  /\ UNCHANGED <<node, pc, adapter>>

Next == Construct \/ Execute

Spec == Init /\ [][Next]_vars

\* ------------------------------------------------- vocabulary of the claims
Rank == Len(node.inShape)

\* The order is fixed at construction: there is no second input, or a
\* Constant produces it.
StaticOrder ==
  node.numInputs = 1 \/ (node.numInputs = 2 /\ node.producer = "Constant")

\* The order is read at every Execute.
RuntimeOrder == node.numInputs = 2 /\ node.producer # "Constant"

EventsOf(tr, kind) == SelectSeq(tr, LAMBDA e : e.ev = kind)

Downloads == EventsOf(call.trace, "download")
Synchronizations == EventsOf(call.trace, "synchronize")
Descriptors == EventsOf(call.trace, "cutensorInitTensorDescriptor")
PrimitiveCalls == EventsOf(call.trace, "cutensorPermutation")

\* The last Execute call invoked the permutation primitive.
ReachedPrimitive == call.made /\ Len(PrimitiveCalls) > 0

\* strides is the row-major stride vector of extents, both of length r: the
\* last stride is 1 and each other one is the next stride times the next
\* extent.
RowMajor(extents, strides, r) ==
  /\ Len(extents) = r
  /\ Len(strides) = r
  /\ \A i \in 1..r :
       strides[i] = IF i = r THEN 1 ELSE extents[i + 1] * strides[i + 1]

\* ------------------------------------------------------------------- C1
\* C1: with only the data input, the order is static and every Execute
\* passes reverse(0..r-1) to the primitive: element i is r-1-i.
C1_DefaultOrderIsReverse ==
  (pc = "ready" /\ node.numInputs = 1) =>
    /\ adapter.outputMode_.has_value
    /\ Len(adapter.outputMode_.value) = Rank
    /\ call.made =>
         \A k \in 1..Len(PrimitiveCalls) :
           /\ Len(PrimitiveCalls[k].modeB) = Rank
           /\ \A i \in 0..(Rank - 1) : PrimitiveCalls[k].modeB[i + 1] = Rank - 1 - i

C1_Witness ==
  /\ pc = "ready" /\ node.numInputs = 1 /\ Rank = 3
  /\ ReachedPrimitive
  /\ PrimitiveCalls[1].modeB = <<2, 1, 0>>

\* ------------------------------------------------------------------- C2
\* C2: when a Constant holding [p0..p_{r-1}] produces the second input, the
\* order stored and passed to the primitive is exactly that sequence, whichever
\* of the eight integer element types holds it: storing the sequence as any
\* of them and converting it back gives the sequence (a fact about the node's
\* values alone, stated in the state the constructor leaves).
C2_ConstantOrderDecoded ==
  (pc = "ready" /\ node.numInputs = 2 /\ node.producer = "Constant") =>
    /\ adapter.outputMode_ = [has_value |-> TRUE, value |-> node.permValues]
    /\ ~call.made =>
         \A t \in IntegerTypes :
           cast_vector(t, EncodeVector(t, node.permValues)) = node.permValues
    /\ call.made =>
         \A k \in 1..Len(PrimitiveCalls) : PrimitiveCalls[k].modeB = node.permValues

C2_Witness ==
  /\ pc = "ready" /\ node.numInputs = 2 /\ node.producer = "Constant"
  /\ node.permType = "u64" /\ node.permValues = <<2, 0, 1>>
  /\ ReachedPrimitive
  /\ PrimitiveCalls[1].modeB = <<2, 0, 1>>

\* ------------------------------------------------------------------- C3
\* C3: constructing from a node whose input count is not 1 or 2 fails with
\* InvalidGraph: there is no adapter, and nothing is ever executed for it.
C3_BadInputCountFails ==
  /\ (pc # "new" /\ node.numInputs \notin {1, 2}) =>
       pc = "InvalidGraph" /\ adapter = NoAdapter /\ call = NoCall
  /\ call.made => node.numInputs \in {1, 2}

C3_Witness == pc = "InvalidGraph" /\ node.numInputs = 3 /\ adapter = NoAdapter

\* ------------------------------------------------------------------- C4
\* C4: with a second input that no Constant produces, an Execute call that is
\* given two input tensors and one output tensor, for an order of a supported
\* integer type, reaches the primitive; and every call that reaches it has
\* made exactly one download of r * sizeof(element) bytes, then exactly one
\* synchronization, both before the primitive.
C4_RuntimeOrderDownloadedOnce ==
  (pc = "ready" /\ RuntimeOrder /\ call.made) =>
    /\ (/\ call.numInputTensors = 2
        /\ call.numOutputTensors = 1
        /\ node.permType \in IntegerTypes) => Len(PrimitiveCalls) = 1
    /\ ReachedPrimitive =>
         /\ Len(Downloads) = 1
         /\ Downloads[1].bytes = Rank * SizeOf(node.permType)
         /\ Len(Synchronizations) = 1
         /\ \E i, j, k \in 1..Len(call.trace) :
              /\ i < j /\ j < k
              /\ call.trace[i].ev = "download"
              /\ call.trace[j].ev = "synchronize"
              /\ call.trace[k].ev = "cutensorPermutation"

C4_Witness ==
  /\ pc = "ready" /\ RuntimeOrder /\ node.permType = "i16" /\ Rank = 2
  /\ ReachedPrimitive
  /\ Len(Downloads) = 1 /\ Downloads[1].bytes = 4
  /\ Len(Synchronizations) = 1

\* ------------------------------------------------------------------- C5
\* C5: with a runtime order whose declared element type is none of the eight
\* integer types, Execute fails, makes no download and never invokes the
\* primitive; given two input tensors and one output tensor, the failure is
\* UnsupportedType.
C5_UnsupportedTypeRefused ==
  (pc = "ready" /\ RuntimeOrder /\ node.permType \notin IntegerTypes /\ call.made) =>
    /\ call.error # "none"
    /\ Len(Downloads) = 0
    /\ Len(PrimitiveCalls) = 0
    /\ (call.numInputTensors = 2 /\ call.numOutputTensors = 1) =>
         call.error = "UnsupportedType"

C5_Witness ==
  /\ pc = "ready" /\ RuntimeOrder /\ node.permType = "f32"
  /\ call.made /\ call.error = "UnsupportedType" /\ call.trace = <<>>

\* ------------------------------------------------------------------- C6
\* C6: the input and the output layout computed at construction each have r
\* extents and r strides, and the strides are row-major: stride[i] is the
\* product of extents[i+1..r-1], the last stride being 1.
C6_RowMajorStrides ==
  pc = "ready" =>
    /\ adapter.dimsNumber_ = Rank
    /\ RowMajor(adapter.inputExtents_, adapter.inputStrides_, Rank)
    /\ RowMajor(adapter.outputExtents_, adapter.outputStrides_, Rank)

C6_Witness ==
  /\ pc = "ready"
  /\ adapter.inputExtents_ = <<1, 2, 2>> /\ adapter.inputStrides_ = <<4, 2, 1>>
  /\ adapter.outputExtents_ = <<2, 1, 2>> /\ adapter.outputStrides_ = <<2, 2, 1>>

\* ------------------------------------------------------------------- C7
\* C7: in every Execute call that reaches the primitive, the extents of the
\* output descriptor are the input extents permuted by the order p passed to
\* the primitive: outputExtents[i] = inputExtents[p[i]].
C7_OutputExtentsFollowOrder ==
  (pc = "ready" /\ ReachedPrimitive) =>
    LET p == PrimitiveCalls[1].modeB
        out == Descriptors[2].extent
    IN  /\ Len(out) = Rank
        /\ Len(p) = Rank
        /\ \A i \in 1..Rank :
             /\ p[i] \in 0..(Rank - 1)
             /\ out[i] = adapter.inputExtents_[p[i] + 1]

\* ------------------------------------------------------------------- C8
\* C8 as stated: Execute fails without invoking the primitive whenever the
\* number of input tensors differs from the node's input count or the number
\* of output tensors is not one.
C8_CountsMustMatchNode ==
  (pc = "ready" /\ call.made
     /\ (call.numInputTensors # node.numInputs \/ call.numOutputTensors # 1)) =>
    call.error # "none" /\ Len(PrimitiveCalls) = 0

\* C8 amended: Execute fails, with no call made on the stream or on the
\* primitive, whenever the number of input tensors is neither 1 nor 2, or the
\* number of output tensors is not one, or the order is read at execution and
\* the number of input tensors is not 2.
C8_CountsChecked ==
  (pc = "ready" /\ call.made
     /\ (\/ call.numInputTensors \notin {1, 2}
         \/ call.numOutputTensors # 1
         \/ (~adapter.outputMode_.has_value /\ call.numInputTensors # 2))) =>
    call.error = "PreconditionViolated" /\ call.trace = <<>>

C8_Witness ==
  /\ pc = "ready" /\ call.made
  /\ call.numInputTensors = 2 /\ call.numOutputTensors = 2
  /\ call.error = "PreconditionViolated" /\ call.trace = <<>>

\* ------------------------------------------------------------------- C9
\* C9: in every Execute call that reaches the primitive, the order passed to
\* it has length rank and holds each of 0..rank-1 exactly once.
C9_OrderIsPermutation ==
  (pc = "ready" /\ call.made) =>
    \A k \in 1..Len(PrimitiveCalls) :
      /\ Len(PrimitiveCalls[k].modeB) = Rank
      /\ Range(PrimitiveCalls[k].modeB) = 0..(Rank - 1)

\* ------------------------------------------------------------------ C10
\* C10: with a static order, an Execute call, after any earlier calls, makes
\* no download and no synchronization and passes the order stored at
\* construction to the primitive; and after any calls every member of the
\* adapter has the value the constructor gave it.
C10_StaticOrderReused ==
  pc = "ready" =>
    /\ adapter = TransposeOp(node)
    /\ (StaticOrder /\ call.made) =>
         /\ Len(Downloads) = 0
         /\ Len(Synchronizations) = 0
         /\ \A k \in 1..Len(PrimitiveCalls) :
              PrimitiveCalls[k].modeB = tryToExtractPermutation(node).value

C10_Witness ==
  /\ pc = "ready" /\ StaticOrder /\ node.numInputs = 2
  /\ call.made /\ call.numInputTensors = 2 /\ call.error = "PrimitiveFailure"
  /\ Len(PrimitiveCalls) = 1 /\ Len(Downloads) = 0

====
